---- MODULE Spec2Model ----
(***************************************************************************)
(* A model of the goffkv Consul driver (consul.go): the translation of the *)
(* abstract key-value operations into atomic batches of primitive Consul   *)
(* KV operations, the mapping of the batch outcome back to results and     *)
(* errors, and the lazily created session with its renewal task.           *)
(*                                                                         *)
(* Strings are sequences of one-character strings, so that path assembly,  *)
(* prefix matching and detachChild are computed as the code computes them. *)
(***************************************************************************)
EXTENDS Integers, Sequences, FiniteSets, TLC

VARIABLES
    store,               \* the backing store: path -> [val, ver, ses]
    idx,                 \* the backing store's raft index (last one used)
    sessions,            \* ids of the sessions alive on the backing store
    nSessionCreates,     \* number of sessions ever created on the backing store
    prefixSegments,      \* consulClient.prefixSegments
    sessionId,           \* consulClient.sessionId (0 models "")
    sessionRenewDoneCh,  \* consulClient.sessionRenewDoneCh (0 models nil)
    closedChs,           \* the stop channels that have been closed
    renewTasks,          \* running RenewPeriodic goroutines: [sid, ch]
    callers,             \* position of each caller inside a leased write or a watch
    panicked,            \* "none", or the message of the panic that ended the program
    last                 \* the call that has just returned, with its result

vars == <<store, idx, sessions, nSessionCreates, prefixSegments, sessionId,
          sessionRenewDoneCh, closedChs, renewTasks, callers, panicked, last>>

----------------------------------------------------------------------------
(* Bounds of the model *)

\* the highest raft index the backing store hands out, for each specification
MaxIdx == 4

MaxTxnIdx == 3

MaxRaceIdx == 3

\* the highest number of sessions the backing store creates
MaxSessions == 2

\* the number of concurrent callers sharing the driver instance
NCallers == 2

\* the longest Checks list and the longest Ops list of a Txn
MaxChecks == 1

MaxOps == 2

\* the highest raft index when watches are invoked
MaxWatchIdx == 3

\* the highest raft index when malformed keys are tried
MaxKeyIdx == 2

----------------------------------------------------------------------------
(* Strings, segments and keys *)

Values == {"v1", "v2"}

SegA == <<"a">>

SegB == <<"b">>

SegBC == <<"b", "c">>

SegD == <<"d">>

SegM == <<"m">>

\* the keys callers use, as the segment lists DisassembleKey yields
Keys == { <<SegA>>, <<SegA, SegB>>, <<SegA, SegBC>>, <<SegA, SegB, SegD>> }

\* a key string with an empty segment ("/a/"), as a segment list
BadKey == << SegA, <<>> >>

\* goffkv.DisassembleKey(key) returns an error: no segment, or an empty one
Malformed(key) == key = <<>> \/ \E n \in 1..Len(key) : key[n] = <<>>

\* the mount prefixes a driver is constructed with
Prefixes == { <<>>, <<SegM>> }

\* byte order of the characters used
CharRank(ch) ==
    CASE ch = "/" -> 0
      [] ch = "a" -> 1
      [] ch = "b" -> 2
      [] ch = "c" -> 3
      [] ch = "d" -> 4
      [] OTHER    -> 5

RECURSIVE StrLess(_, _)
StrLess(s, t) ==
    IF t = <<>> THEN FALSE
    ELSE IF s = <<>> THEN TRUE
    ELSE IF s[1] # t[1] THEN CharRank(s[1]) < CharRank(t[1])
    ELSE StrLess(Tail(s), Tail(t))

HasPrefix(s, p) ==
    /\ Len(s) >= Len(p)
    /\ SubSeq(s, 1, Len(p)) = p

\* strings.Join(parts, "/")
RECURSIVE Join(_)
Join(parts) ==
    IF parts = <<>> THEN <<>>
    ELSE IF Len(parts) = 1 THEN parts[1]
    ELSE parts[1] \o <<"/">> \o Join(Tail(parts))

\* strings.LastIndexByte(path, '/'), zero-based, -1 when there is none
LastIndexByte(path, ch) ==
    LET at == { i \in 1..Len(path) : path[i] = ch }
    IN  IF at = {} THEN -1
        ELSE (CHOOSE i \in at : \A j \in at : j <= i) - 1

\* the key string a caller writes for a segment list: "/" + segments joined by "/"
KeyString(segments) == <<"/">> \o Join(segments)

assemblePathWith(prefix, segments) == Join(prefix \o segments)

assemblePath(segments) == assemblePathWith(prefixSegments, segments)

----------------------------------------------------------------------------
(* The backing store: atomic execution of a batch of primitive operations *)

Absent(st, path) == path \notin DOMAIN st

Put(st, path, entry) ==
    [p \in (DOMAIN st) \cup {path} |-> IF p = path THEN entry ELSE st[p]]

Remove(st, paths) ==
    [p \in (DOMAIN st) \ paths |-> st[p]]

UnderPrefix(st, prefix) == { p \in DOMAIN st : HasPrefix(p, prefix) }

\* the paths of a set in byte order, as the store lists them
RECURSIVE SortPaths(_)
LeastFirst(S, m) == <<m>> \o SortPaths(S \ {m})

SortPaths(S) ==
    IF S = {} THEN <<>>
    ELSE LeastFirst(S, CHOOSE x \in S : \A y \in S \ {x} : StrLess(x, y))

ResultOf(st, path) == [key |-> path, val |-> st[path].val, ver |-> st[path].ver]

PrimOp(verb, key, value, index, session) ==
    [verb |-> verb, key |-> key, value |-> value, index |-> index, session |-> session]

\* what one primitive operation yields
OpFailed(st) == [st |-> st, res |-> <<>>, err |-> TRUE]

OpSilent(st) == [st |-> st, res |-> <<>>, err |-> FALSE]

OpResult(st, path) == [st |-> st, res |-> <<ResultOf(st, path)>>, err |-> FALSE]

OpResults(st, paths) ==
    [st |-> st, res |-> [n \in 1..Len(paths) |-> ResultOf(st, paths[n])], err |-> FALSE]

\* the session a written entry keeps
SessionOf(st, path) == IF Absent(st, path) THEN 0 ELSE st[path].ses

\* one primitive operation at raft index i with the sessions live: the new
\* store, the results it appends and whether it failed
ExecOp(st, live, i, op) ==
    CASE op.verb = "get" ->
            IF Absent(st, op.key) THEN OpFailed(st) ELSE OpResult(st, op.key)
      [] op.verb = "get-tree" ->
            OpResults(st, SortPaths(UnderPrefix(st, op.key)))
      [] op.verb = "set" ->
            OpResult(Put(st, op.key, [val |-> op.value, ver |-> i,
                                      ses |-> SessionOf(st, op.key)]),
                     op.key)
      [] op.verb = "lock" ->
            IF op.session \notin live THEN OpFailed(st)
            ELSE IF SessionOf(st, op.key) \notin {0, op.session} THEN OpFailed(st)
            ELSE OpResult(Put(st, op.key, [val |-> op.value, ver |-> i,
                                           ses |-> op.session]),
                          op.key)
      [] op.verb = "cas" ->
            IF Absent(st, op.key) \/ st[op.key].ver # op.index THEN OpFailed(st)
            ELSE OpResult(Put(st, op.key, [val |-> op.value, ver |-> i,
                                           ses |-> SessionOf(st, op.key)]),
                          op.key)
      [] op.verb = "delete" ->
            OpSilent(Remove(st, {op.key}))
      [] op.verb = "delete-cas" ->
            IF Absent(st, op.key) THEN OpSilent(st)
            ELSE IF st[op.key].ver # op.index THEN OpFailed(st)
            ELSE OpSilent(Remove(st, {op.key}))
      [] op.verb = "delete-tree" ->
            OpSilent(Remove(st, UnderPrefix(st, op.key)))
      [] op.verb = "check-index" ->
            IF Absent(st, op.key) \/ st[op.key].ver # op.index THEN OpFailed(st)
            ELSE OpResult(st, op.key)
      [] op.verb = "check-not-exists" ->
            IF Absent(st, op.key) THEN OpSilent(st) ELSE OpFailed(st)
      [] OTHER -> OpFailed(st)

\* the operations of a batch in order, from position n (one-based), stopping
\* at the first one that fails: r is what operation n yielded
RECURSIVE ExecFrom(_, _, _, _, _)
ExecNext(r, live, i, ops, n, res) ==
    IF r.err
    THEN [ok |-> FALSE, st |-> r.st, results |-> <<>>, opIndex |-> n - 1]
    ELSE ExecFrom([st |-> r.st, res |-> res \o r.res], live, i, ops, n + 1)

ExecFrom(acc, live, i, ops, n) ==
    IF n > Len(ops)
    THEN [ok |-> TRUE, st |-> acc.st, results |-> acc.res, opIndex |-> -1]
    ELSE ExecNext(ExecOp(acc.st, live, i, ops[n]), live, i, ops, n, acc.res)

\* a batch that failed leaves the store as it was
Settle(st, r) == IF r.ok THEN r ELSE [r EXCEPT !.st = st]

\* c.txn.Txn(ops): all of the batch or nothing of it; opIndex is the
\* zero-based index of the first failing operation (ret.Errors[0].OpIndex)
TxnOutcome(st, live, i, ops) ==
    Settle(st, ExecFrom([st |-> st, res |-> <<>>], live, i, ops, 1))

\* c.kv.Get(path): the entry, or none
KvGet(st, path) ==
    IF Absent(st, path) THEN [found |-> FALSE, val |-> "", ver |-> 0]
    ELSE [found |-> TRUE, val |-> st[path].val, ver |-> st[path].ver]

----------------------------------------------------------------------------
(* Results of calls *)

NoTxn == [checks |-> <<>>, ops |-> <<>>]

\* no call has returned and waits to be looked at
NoCall ==
    [op |-> "none", key |-> <<>>, value |-> "", ver |-> 0, lease |-> FALSE,
     txn |-> NoTxn, rver |-> 0, rval |-> "", err |-> "ok", children |-> <<>>,
     results |-> <<>>, index |-> -1, pre |-> <<>>, sent |-> {}, watch |-> <<>>]

\* the call returns the error of DisassembleKey
Rejected(call) == last' = [call EXCEPT !.err = "MalformedKey", !.pre = store]

Running == panicked = "none"

Idle == Running /\ last.op = "none"

----------------------------------------------------------------------------
(* The session of the driver *)

NoSession == [err |-> "ok", sid |-> 0, created |-> FALSE]

\* getOrCreateSessionId that does not look at the cached id
SessionAcquiredAnew(sessionFails) ==
    IF sessionFails
    THEN [err |-> "Transport", sid |-> 0, created |-> FALSE]
    ELSE [err |-> "ok", sid |-> nSessionCreates + 1, created |-> TRUE]

\* getOrCreateSessionId when no other call overlaps it: the cached id, or a
\* session created on the backing store (sessionFails: the request fails)
SessionAcquired(sessionFails) ==
    IF sessionId # 0
    THEN [err |-> "ok", sid |-> sessionId, created |-> FALSE]
    ELSE IF sessionFails
    THEN [err |-> "Transport", sid |-> 0, created |-> FALSE]
    ELSE [err |-> "ok", sid |-> nSessionCreates + 1, created |-> TRUE]

\* the driver and store fields after SessionAcquired
SessionEffect(acq) ==
    IF acq.created
    THEN /\ sessions' = sessions \cup {acq.sid}
         /\ nSessionCreates' = nSessionCreates + 1
         /\ sessionRenewDoneCh' = acq.sid
         /\ renewTasks' = renewTasks \cup {[sid |-> acq.sid, ch |-> acq.sid]}
         /\ sessionId' = acq.sid
    ELSE UNCHANGED <<sessions, nSessionCreates, sessionRenewDoneCh, renewTasks, sessionId>>

\* the session-create request getOrCreateSessionId sends, if it sends one
SessionSent(acq) == IF acq.created \/ acq.err # "ok" THEN {"session-create"} ELSE {}

\* the sessions live when the batch runs
LiveWith(acq) == IF acq.created THEN sessions \cup {acq.sid} ELSE sessions

NoSessionUse == UNCHANGED <<sessions, nSessionCreates, sessionRenewDoneCh, renewTasks, sessionId>>

----------------------------------------------------------------------------
(* Single operations: the batch each one builds and the result it maps back *)

\* no parent check for any key
maybeGetParentNever(prefix, segments) == <<>>

maybeGetParentWith(prefix, segments) ==
    IF Len(segments) > 1
    THEN << PrimOp("get", assemblePathWith(prefix, SubSeq(segments, 1, Len(segments) - 1)),
                   "", 0, 0) >>
    ELSE <<>>

maybeGetParent(segments) == maybeGetParentWith(prefixSegments, segments)

LastVer(results) == results[Len(results)].ver

\* Create with a get in place of check-not-exists
CreateOpsGet(segments, value, lease, sid) ==
    maybeGetParent(segments)
        \o << PrimOp("get", assemblePath(segments), "", 0, 0) >>
        \o << IF lease
              THEN PrimOp("lock", assemblePath(segments), value, 0, sid)
              ELSE PrimOp("set", assemblePath(segments), value, 0, 0) >>

\* Create: parent get, check-not-exists, then lock (lease) or set
CreateOps(segments, value, lease, sid) ==
    maybeGetParent(segments)
        \o << PrimOp("check-not-exists", assemblePath(segments), "", 0, 0) >>
        \o << IF lease
              THEN PrimOp("lock", assemblePath(segments), value, 0, sid)
              ELSE PrimOp("set", assemblePath(segments), value, 0, 0) >>

\* Create returning the version of the first result in place of the last
CreateResultFirst(r, nCheckParentOps) ==
    IF r.ok THEN [st |-> r.st, ver |-> r.results[1].ver, err |-> "ok"]
    ELSE IF r.opIndex < nCheckParentOps THEN [st |-> r.st, ver |-> 0, err |-> "NoEntry"]
    ELSE IF r.opIndex = nCheckParentOps THEN [st |-> r.st, ver |-> 0, err |-> "EntryExists"]
    ELSE [st |-> r.st, ver |-> 0, err |-> "Unexpected"]

\* Create, lines 139-157: the version of the last result, or the error the
\* index of the first failing operation stands for
CreateResult(r, nCheckParentOps) ==
    IF r.ok THEN [st |-> r.st, ver |-> LastVer(r.results), err |-> "ok"]
    ELSE IF r.opIndex < nCheckParentOps THEN [st |-> r.st, ver |-> 0, err |-> "NoEntry"]
    ELSE IF r.opIndex = nCheckParentOps THEN [st |-> r.st, ver |-> 0, err |-> "EntryExists"]
    ELSE [st |-> r.st, ver |-> 0, err |-> "Unexpected"]

CreateOutcome(st, live, i, segments, value, lease, sid) ==
    CreateResult(TxnOutcome(st, live, i, CreateOps(segments, value, lease, sid)),
                 Len(maybeGetParent(segments)))

\* Set: parent get, then set
SetOps(segments, value) ==
    maybeGetParent(segments) \o << PrimOp("set", assemblePath(segments), value, 0, 0) >>

SetResult(r) ==
    IF r.ok THEN [st |-> r.st, ver |-> LastVer(r.results), err |-> "ok"]
    ELSE [st |-> r.st, ver |-> 0, err |-> "NoEntry"]

SetOutcome(st, live, i, segments, value) ==
    SetResult(TxnOutcome(st, live, i, SetOps(segments, value)))

\* Cas with set in place of cas
CasOpsSet(segments, value, ver) ==
    << PrimOp("get", assemblePath(segments), "", 0, 0),
       PrimOp("set", assemblePath(segments), value, ver, 0) >>

\* Cas with ver # 0: get, then cas
CasOps(segments, value, ver) ==
    << PrimOp("get", assemblePath(segments), "", 0, 0),
       PrimOp("cas", assemblePath(segments), value, ver, 0) >>

\* Cas with ver = 0 that returns the error of Create as it is
CasFromCreateAsIs(c) == c

\* Cas with ver = 0, lines 190-199: Create, with EntryExists turned into (0, nil)
CasFromCreate(c) ==
    IF c.err = "ok" THEN c
    ELSE IF c.err = "EntryExists" THEN [c EXCEPT !.ver = 0, !.err = "ok"]
    ELSE [c EXCEPT !.ver = 0]

\* Cas with ver # 0, lines 228-238
CasResult(r) ==
    IF r.ok THEN [st |-> r.st, ver |-> LastVer(r.results), err |-> "ok"]
    ELSE IF r.opIndex = 0 THEN [st |-> r.st, ver |-> 0, err |-> "NoEntry"]
    ELSE [st |-> r.st, ver |-> 0, err |-> "ok"]

CasOutcome(st, live, i, segments, value, ver) ==
    IF ver = 0
    THEN CasFromCreate(CreateOutcome(st, live, i, segments, value, FALSE, 0))
    ELSE CasResult(TxnOutcome(st, live, i, CasOps(segments, value, ver)))

\* Erase that leaves the subtree
EraseOpsKeyOnly(segments, ver) ==
    << PrimOp("get", assemblePath(segments), "", 0, 0),
       IF ver = 0
       THEN PrimOp("delete", assemblePath(segments), "", 0, 0)
       ELSE PrimOp("delete-cas", assemblePath(segments), "", ver, 0) >>

\* Erase that deletes whatever the version
EraseOpsAnyVer(segments, ver) ==
    << PrimOp("get", assemblePath(segments), "", 0, 0),
       PrimOp("delete", assemblePath(segments), "", 0, 0),
       PrimOp("delete-tree", assemblePath(segments) \o <<"/">>, "", 0, 0) >>

\* Erase whose delete-tree prefix lacks the trailing "/"
EraseOpsNoSlash(segments, ver) ==
    << PrimOp("get", assemblePath(segments), "", 0, 0),
       IF ver = 0
       THEN PrimOp("delete", assemblePath(segments), "", 0, 0)
       ELSE PrimOp("delete-cas", assemblePath(segments), "", ver, 0),
       PrimOp("delete-tree", assemblePath(segments), "", 0, 0) >>

\* Erase: get, delete or delete-cas, then delete-tree of path + "/"
EraseOps(segments, ver) ==
    << PrimOp("get", assemblePath(segments), "", 0, 0),
       IF ver = 0
       THEN PrimOp("delete", assemblePath(segments), "", 0, 0)
       ELSE PrimOp("delete-cas", assemblePath(segments), "", ver, 0),
       PrimOp("delete-tree", assemblePath(segments) \o <<"/">>, "", 0, 0) >>

\* Erase, lines 286-293: NoEntry for a failure at operation 0, else no error
EraseResult(r) ==
    IF ~r.ok /\ r.opIndex = 0 THEN [st |-> r.st, err |-> "NoEntry"]
    ELSE [st |-> r.st, err |-> "ok"]

EraseOutcome(st, live, i, segments, ver) ==
    EraseResult(TxnOutcome(st, live, i, EraseOps(segments, ver)))

ExistsResult(kv) ==
    IF ~kv.found THEN [ver |-> 0, err |-> "ok"]
    ELSE [ver |-> kv.ver, err |-> "ok"]

ExistsOutcome(st, segments) == ExistsResult(KvGet(st, assemblePath(segments)))

GetResult(kv) ==
    IF ~kv.found THEN [ver |-> 0, val |-> "", err |-> "NoEntry"]
    ELSE [ver |-> kv.ver, val |-> kv.val, err |-> "ok"]

GetOutcome(st, segments) == GetResult(KvGet(st, assemblePath(segments)))

\* detachChild without the test for a deeper "/"
detachChildAnyDepth(path, nPrefix, nGlobalPrefix) ==
    IF nGlobalPrefix = 0 THEN <<"/">> \o path
    ELSE SubSeq(path, nGlobalPrefix + 1, Len(path))

detachChild(path, nPrefix, nGlobalPrefix) ==
    IF LastIndexByte(path, "/") >= nPrefix THEN <<>>
    ELSE IF nGlobalPrefix = 0 THEN <<"/">> \o path
    ELSE SubSeq(path, nGlobalPrefix + 1, Len(path))

\* the children loop: every result but the last, those detachChild keeps
RECURSIVE DetachAll(_, _, _, _)
KeepChild(child, results, n, nPrefix, nGlobalPrefix) ==
    (IF child # <<>> THEN <<child>> ELSE <<>>)
        \o DetachAll(results, n + 1, nPrefix, nGlobalPrefix)

DetachAll(results, n, nPrefix, nGlobalPrefix) ==
    IF n > Len(results) - 1 THEN <<>>
    ELSE KeepChild(detachChild(results[n].key, nPrefix, nGlobalPrefix),
                   results, n, nPrefix, nGlobalPrefix)

ChildrenOps(segments) ==
    << PrimOp("get-tree", assemblePath(segments) \o <<"/">>, "", 0, 0),
       PrimOp("get", assemblePath(segments), "", 0, 0) >>

ChildrenResult(r, nPrefix, globalPrefixLength) ==
    IF ~r.ok THEN [children |-> <<>>, err |-> "NoEntry"]
    ELSE [children |-> DetachAll(r.results, 1, nPrefix, globalPrefixLength), err |-> "ok"]

ChildrenOutcome(st, live, segments) ==
    ChildrenResult(TxnOutcome(st, live, 0, ChildrenOps(segments)),
                   Len(assemblePath(segments) \o <<"/">>),
                   Len(assemblePath(<<>>)))

----------------------------------------------------------------------------
(* Commit: the batch of a Txn, its boundary table and its result kinds *)

\* where the next operation of Ops starts a batch: nothing built yet
EmptyBatch == [ops |-> <<>>, boundaries |-> <<>>, rks |-> <<>>]

\* a check: get when Ver = 0, else check-index
CheckOp(check) ==
    IF check.ver = 0
    THEN PrimOp("get", assemblePath(check.key), "", 0, 0)
    ELSE PrimOp("check-index", assemblePath(check.key), "", check.ver, 0)

\* the batch with the primitive operations of one item appended, the result
\* kinds of those that yield a result, and the boundary len(ops) - 1
Extend(b, prims, rks) ==
    [ops |-> b.ops \o prims,
     boundaries |-> Append(b.boundaries, Len(b.ops) + Len(prims) - 1),
     rks |-> b.rks \o rks]

\* a check that records no result kind for the result its operation yields
AddCheckNoKind(b, check) ==
    [ops |-> b.ops \o << CheckOp(check) >>,
     boundaries |-> Append(b.boundaries, Len(b.ops)),
     rks |-> b.rks]

\* a check that records no boundary, so that indices count Ops only
AddCheckNoBoundary(b, check) ==
    [ops |-> b.ops \o << CheckOp(check) >>,
     boundaries |-> b.boundaries,
     rks |-> Append(b.rks, "rkAux")]

\* one check: one primitive operation, one boundary, one rkAux
AddCheck(b, check) == Extend(b, << CheckOp(check) >>, << "rkAux" >>)

\* one operation of Ops, with Set expanded as the single call Set expands it
AddOpSetAsCall(b, op, sid) ==
    CASE op.what = "Create" ->
            Extend(b,
                   maybeGetParent(op.key)
                       \o << PrimOp("check-not-exists", assemblePath(op.key), "", 0, 0) >>
                       \o << IF op.lease
                             THEN PrimOp("lock", assemblePath(op.key), op.value, 0, sid)
                             ELSE PrimOp("set", assemblePath(op.key), op.value, 0, 0) >>,
                   [n \in 1..Len(maybeGetParent(op.key)) |-> "rkAux"] \o << "rkCreate" >>)
      [] op.what = "Set" ->
            Extend(b, SetOps(op.key, op.value),
                   [n \in 1..Len(maybeGetParent(op.key)) |-> "rkAux"] \o << "rkSet" >>)
      [] OTHER ->
            Extend(b,
                   << PrimOp("get", assemblePath(op.key), "", 0, 0),
                      PrimOp("delete", assemblePath(op.key), "", 0, 0),
                      PrimOp("delete-tree", assemblePath(op.key) \o <<"/">>, "", 0, 0) >>,
                   << "rkAux" >>)

\* one operation of Ops
AddOp(b, op, sid) ==
    CASE op.what = "Create" ->
            Extend(b,
                   maybeGetParent(op.key)
                       \o << PrimOp("check-not-exists", assemblePath(op.key), "", 0, 0) >>
                       \o << IF op.lease
                             THEN PrimOp("lock", assemblePath(op.key), op.value, 0, sid)
                             ELSE PrimOp("set", assemblePath(op.key), op.value, 0, 0) >>,
                   [n \in 1..Len(maybeGetParent(op.key)) |-> "rkAux"] \o << "rkCreate" >>)
      [] op.what = "Set" ->
            Extend(b,
                   << PrimOp("get", assemblePath(op.key), "", 0, 0),
                      PrimOp("set", assemblePath(op.key), op.value, 0, 0) >>,
                   << "rkAux", "rkSet" >>)
      [] OTHER ->
            Extend(b,
                   << PrimOp("get", assemblePath(op.key), "", 0, 0),
                      PrimOp("delete", assemblePath(op.key), "", 0, 0),
                      PrimOp("delete-tree", assemblePath(op.key) \o <<"/">>, "", 0, 0) >>,
                   << "rkAux" >>)

RECURSIVE AddChecks(_, _)
AddChecks(b, checks) ==
    IF checks = <<>> THEN b
    ELSE AddChecks(AddCheck(b, Head(checks)), Tail(checks))

RECURSIVE AddOps(_, _, _)
AddOps(b, ops, sid) ==
    IF ops = <<>> THEN b
    ELSE AddOps(AddOp(b, Head(ops), sid), Tail(ops), sid)

BuildBatch(txn, sid) == AddOps(AddChecks(EmptyBatch, txn.checks), txn.ops, sid)

\* the least position of a set of positions, zero-based, or -1
FirstAt(at) ==
    IF at = {} THEN -1
    ELSE (CHOOSE n \in at : \A m \in at : n <= m) - 1

\* the scan with > in place of >=
toUserOpIndexStrict(boundaries, op) ==
    FirstAt({ n \in 1..Len(boundaries) : boundaries[n] > op })

\* the position of the first boundary >= op, zero-based, or -1
toUserOpIndex(boundaries, op) ==
    FirstAt({ n \in 1..Len(boundaries) : boundaries[n] >= op })

\* the answer loop: one TxnOpResult for each result whose kind is rkCreate or rkSet
RECURSIVE Answer(_, _, _)
Answer(results, rks, n) ==
    IF n > Len(results) THEN <<>>
    ELSE (CASE rks[n] = "rkCreate" -> << [kind |-> "Create", ver |-> results[n].ver] >>
            [] rks[n] = "rkSet"    -> << [kind |-> "Set", ver |-> results[n].ver] >>
            [] OTHER               -> <<>>)
         \o Answer(results, rks, n + 1)

\* lines 593-598: TxnError with the index of the failing item; an index
\* below zero panics
CommitFailed(st, userIndex) ==
    [st |-> st, results |-> <<>>, err |-> "TxnFailed", index |-> userIndex,
     panic |-> IF userIndex < 0 THEN "txn failed on non-existing op" ELSE "none"]

\* lines 575-598: the result of the batch mapped back
CommitResult(b, r) ==
    IF r.ok
    THEN IF Len(r.results) > Len(b.rks)
         THEN [st |-> r.st, results |-> <<>>, err |-> "ok", index |-> -1,
               panic |-> "index out of range"]
         ELSE [st |-> r.st, results |-> Answer(r.results, b.rks, 1), err |-> "ok",
               index |-> -1, panic |-> "none"]
    ELSE CommitFailed(r.st, toUserOpIndex(b.boundaries, r.opIndex))

CommitRun(st, live, i, b) == CommitResult(b, TxnOutcome(st, live, i, b.ops))

\* the batch sent in pieces: what ran before the failing operation stays
CommitRunPartial(st, live, i, b) ==
    CommitResult(b, ExecFrom([st |-> st, res |-> <<>>], live, i, b.ops, 1))

\* Commit sending the batch in pieces
CommitOutcomePartial(st, live, i, txn, sid) ==
    CommitRunPartial(st, live, i, BuildBatch(txn, sid))

\* the batch of a Txn run on the store and mapped back
CommitOutcome(st, live, i, txn, sid) == CommitRun(st, live, i, BuildBatch(txn, sid))

\* the operations and checks callers put into a Txn
UserOps(keys, values, leases) ==
    [what : {"Create"}, key : keys, value : values, lease : leases]
        \cup [what : {"Set"}, key : keys, value : values, lease : {FALSE}]
        \cup [what : {"Erase"}, key : keys, value : {""}, lease : {FALSE}]

UserChecks(keys) == [key : keys, ver : 0..MaxTxnIdx]

SeqsUpTo(S, n) == UNION { [1..m -> S] : m \in 0..n }

\* the keys of the Txns tried: of one, two and three segments
TxnKeys == { <<SegA>>, <<SegA, SegB>>, <<SegA, SegB, SegD>> }

\* the Txns tried without a lease
PlainTxns ==
    [checks : SeqsUpTo(UserChecks(TxnKeys), MaxChecks),
     ops : SeqsUpTo(UserOps(TxnKeys, {"v2"}, {FALSE}), MaxOps)]

\* the keys overlapping callers write
RaceKeys == { <<SegA>>, <<SegA, SegB>> }

\* the Txns tried by overlapping callers: leased Creates, no Checks
LeasedTxns ==
    [checks : {<<>>},
     ops : SeqsUpTo([what : {"Create"}, key : RaceKeys, value : {"v2"}, lease : {TRUE}], MaxOps)
               \ {<<>>}]

\* lines 453-457: the key of a check is malformed
ChecksMalformed(txn) == \E n \in 1..Len(txn.checks) : Malformed(txn.checks[n].key)

\* lines 480-484: the position in Ops of the first malformed key, or
\* len(Ops) + 1
FirstBadOp(txn) ==
    FirstAt({ n \in 1..Len(txn.ops) + 1 :
                n = Len(txn.ops) + 1 \/ Malformed(txn.ops[n].key) }) + 1

\* lines 501-505: the loop over Ops reaches a Create with lease, and with it
\* getOrCreateSessionId, before it returns
AsksSession(txn) ==
    /\ ~ChecksMalformed(txn)
    /\ \E n \in 1..FirstBadOp(txn) - 1 : txn.ops[n].what = "Create" /\ txn.ops[n].lease

HasLease(txn) == \E n \in 1..Len(txn.ops) : txn.ops[n].what = "Create" /\ txn.ops[n].lease

----------------------------------------------------------------------------
(* The state after New(address, prefix) *)

Init ==
    /\ store = <<>>
    /\ idx = 0
    /\ sessions = {}
    /\ nSessionCreates = 0
    /\ prefixSegments \in Prefixes
    /\ sessionId = 0
    /\ sessionRenewDoneCh = 0
    /\ closedChs = {}
    /\ renewTasks = {}
    /\ callers = [t \in 1..NCallers |->
                      [pc |-> "idle", sid |-> 0, key |-> <<>>, seen |-> 0, watch |-> <<>>,
                       waited |-> FALSE]]
    /\ panicked = "none"
    /\ last = NoCall

----------------------------------------------------------------------------
(* Calls that no other call overlaps *)

\* Create once its batch has run
CreateDone(key, value, lease, out, sent) ==
    /\ store' = out.st
    /\ idx' = idx + 1
    /\ last' = [NoCall EXCEPT !.op = "Create", !.key = key, !.value = value,
                              !.lease = lease, !.rver = out.ver,
                              !.err = out.err, !.pre = store, !.sent = sent]

\* Create with the session acq: the error of the session, or the batch
CreateWith(key, value, lease, acq) ==
    /\ SessionEffect(acq)
    /\ IF acq.err # "ok"
       THEN /\ UNCHANGED <<store, idx>>
            /\ last' = [NoCall EXCEPT !.op = "Create", !.key = key, !.value = value,
                                      !.lease = lease, !.err = acq.err, !.pre = store,
                                      !.sent = SessionSent(acq)]
       ELSE CreateDone(key, value, lease,
                       CreateOutcome(store, LiveWith(acq), idx + 1, key, value, lease, acq.sid),
                       SessionSent(acq) \cup {"txn"})

Create(key, value, lease, sessionFails) ==
    /\ Idle
    /\ lease /\ sessionId = 0 /\ ~sessionFails => nSessionCreates < MaxSessions
    /\ IF Malformed(key)
       THEN /\ Rejected([NoCall EXCEPT !.op = "Create", !.key = key, !.value = value,
                                       !.lease = lease])
            /\ UNCHANGED <<store, idx>>
            /\ NoSessionUse
       ELSE CreateWith(key, value, lease,
                       IF lease THEN SessionAcquired(sessionFails) ELSE NoSession)
    /\ UNCHANGED <<prefixSegments, closedChs, callers, panicked>>

SetDone(key, value, out) ==
    /\ store' = out.st
    /\ last' = [NoCall EXCEPT !.op = "Set", !.key = key, !.value = value,
                              !.rver = out.ver, !.err = out.err, !.pre = store,
                              !.sent = {"txn"}]

Set(key, value) ==
    /\ Idle
    /\ IF Malformed(key)
       THEN /\ Rejected([NoCall EXCEPT !.op = "Set", !.key = key, !.value = value])
            /\ UNCHANGED <<store, idx>>
       ELSE /\ SetDone(key, value, SetOutcome(store, sessions, idx + 1, key, value))
            /\ idx' = idx + 1
    /\ NoSessionUse
    /\ UNCHANGED <<prefixSegments, closedChs, callers, panicked>>

CasDone(key, value, ver, out) ==
    /\ store' = out.st
    /\ last' = [NoCall EXCEPT !.op = "Cas", !.key = key, !.value = value, !.ver = ver,
                              !.rver = out.ver, !.err = out.err, !.pre = store,
                              !.sent = {"txn"}]

Cas(key, value, ver) ==
    /\ Idle
    /\ IF Malformed(key)
       THEN /\ Rejected([NoCall EXCEPT !.op = "Cas", !.key = key, !.value = value,
                                       !.ver = ver])
            /\ UNCHANGED <<store, idx>>
       ELSE /\ CasDone(key, value, ver,
                       CasOutcome(store, sessions, idx + 1, key, value, ver))
            /\ idx' = idx + 1
    /\ NoSessionUse
    /\ UNCHANGED <<prefixSegments, closedChs, callers, panicked>>

EraseDone(key, ver, out) ==
    /\ store' = out.st
    /\ last' = [NoCall EXCEPT !.op = "Erase", !.key = key, !.ver = ver,
                              !.err = out.err, !.pre = store, !.sent = {"txn"}]

Erase(key, ver) ==
    /\ Idle
    /\ IF Malformed(key)
       THEN /\ Rejected([NoCall EXCEPT !.op = "Erase", !.key = key, !.ver = ver])
            /\ UNCHANGED <<store, idx>>
       ELSE /\ EraseDone(key, ver, EraseOutcome(store, sessions, idx + 1, key, ver))
            /\ idx' = idx + 1
    /\ NoSessionUse
    /\ UNCHANGED <<prefixSegments, closedChs, callers, panicked>>

\* the handle with WaitIndex 0 in place of the version read
WatchOnAny(frozenPath, resultVer) == << [path |-> frozenPath, ver |-> 0] >>

\* lines 316-322, 346-352: the watch handle, a closure over the path and the
\* version read, which it passes as WaitIndex
WatchOn(frozenPath, resultVer) == << [path |-> frozenPath, ver |-> resultVer] >>

\* Exists returns a handle if watch is set and the key was found
ExistsDone(key, out, watch) ==
    last' = [NoCall EXCEPT !.op = "Exists", !.key = key, !.rver = out.ver,
                           !.err = out.err, !.pre = store, !.sent = {"get"},
                           !.watch = IF watch /\ out.ver # 0
                                     THEN WatchOn(assemblePath(key), out.ver)
                                     ELSE <<>>]

Exists(key, watch) ==
    /\ Idle
    /\ IF Malformed(key)
       THEN Rejected([NoCall EXCEPT !.op = "Exists", !.key = key])
       ELSE ExistsDone(key, ExistsOutcome(store, key), watch)
    /\ NoSessionUse
    /\ UNCHANGED <<store, idx, prefixSegments, closedChs, callers, panicked>>

\* Get returns a handle if watch is set and the key was found
GetDone(key, out, watch) ==
    last' = [NoCall EXCEPT !.op = "Get", !.key = key, !.rver = out.ver,
                           !.rval = out.val, !.err = out.err, !.pre = store,
                           !.sent = {"get"},
                           !.watch = IF watch /\ out.err = "ok"
                                     THEN WatchOn(assemblePath(key), out.ver)
                                     ELSE <<>>]

Get(key, watch) ==
    /\ Idle
    /\ IF Malformed(key)
       THEN Rejected([NoCall EXCEPT !.op = "Get", !.key = key])
       ELSE GetDone(key, GetOutcome(store, key), watch)
    /\ NoSessionUse
    /\ UNCHANGED <<store, idx, prefixSegments, closedChs, callers, panicked>>

ChildrenDone(key, out) ==
    last' = [NoCall EXCEPT !.op = "Children", !.key = key, !.children = out.children,
                           !.err = out.err, !.pre = store, !.sent = {"txn"}]

Children(key) ==
    /\ Idle
    /\ IF Malformed(key)
       THEN Rejected([NoCall EXCEPT !.op = "Children", !.key = key])
       ELSE ChildrenDone(key, ChildrenOutcome(store, sessions, key))
    /\ NoSessionUse
    /\ UNCHANGED <<store, idx, prefixSegments, closedChs, callers, panicked>>

\* Commit once its batch has run
CommitDone(txn, out, sent) ==
    /\ store' = out.st
    /\ idx' = idx + 1
    /\ panicked' = out.panic
    /\ last' = [NoCall EXCEPT !.op = "Commit", !.txn = txn,
                              !.results = out.results, !.err = out.err,
                              !.index = out.index, !.pre = store, !.sent = sent]

\* Commit with the session acq, the one its loop over Ops asked for before
\* it met a malformed key or came to its end: the error of the session, the
\* error of the malformed key, or the batch
CommitWith(txn, acq) ==
    /\ SessionEffect(acq)
    /\ IF acq.err # "ok"
       THEN /\ UNCHANGED <<store, idx, panicked>>
            /\ last' = [NoCall EXCEPT !.op = "Commit", !.txn = txn,
                                      !.err = acq.err, !.pre = store,
                                      !.sent = SessionSent(acq)]
       ELSE IF FirstBadOp(txn) <= Len(txn.ops)
       THEN /\ UNCHANGED <<store, idx, panicked>>
            /\ Rejected([NoCall EXCEPT !.op = "Commit", !.txn = txn,
                                       !.sent = SessionSent(acq)])
       ELSE CommitDone(txn, CommitOutcome(store, LiveWith(acq), idx + 1, txn, acq.sid),
                       SessionSent(acq) \cup {"txn"})

Commit(txn, sessionFails) ==
    /\ Idle
    /\ AsksSession(txn) /\ sessionId = 0 /\ ~sessionFails => nSessionCreates < MaxSessions
    /\ IF ChecksMalformed(txn)
       THEN /\ Rejected([NoCall EXCEPT !.op = "Commit", !.txn = txn])
            /\ UNCHANGED <<store, idx, panicked>>
            /\ NoSessionUse
       ELSE CommitWith(txn, IF AsksSession(txn) THEN SessionAcquired(sessionFails)
                            ELSE NoSession)
    /\ UNCHANGED <<prefixSegments, closedChs, callers>>

\* the caller has looked at the result of the call that returned
Return ==
    /\ Running
    /\ last.op # "none"
    /\ last' = NoCall
    /\ UNCHANGED <<store, idx, sessions, nSessionCreates, prefixSegments, sessionId,
                   sessionRenewDoneCh, closedChs, renewTasks, callers, panicked>>


----------------------------------------------------------------------------
(* Leased writes of callers that overlap: getOrCreateSessionId statement by *)
(* statement, then the batch *)

SetCaller(t, pc, sid) == callers' = [callers EXCEPT ![t].pc = pc, ![t].sid = sid]

\* line 73: the read of c.sessionId
ReadSessionId(t) ==
    /\ Running
    /\ callers[t].pc = "idle"
    /\ IF sessionId # 0
       THEN SetCaller(t, "batch", sessionId)
       ELSE SetCaller(t, "create", 0)
    /\ UNCHANGED <<store, idx, sessions, nSessionCreates, prefixSegments, sessionId,
                   sessionRenewDoneCh, closedChs, renewTasks, panicked, last>>

\* line 84: session.Create on the backing store, which may fail
SessionCreate(t, sessionFails) ==
    /\ Running
    /\ callers[t].pc = "create"
    /\ IF sessionFails
       THEN /\ SetCaller(t, "idle", 0)
            /\ UNCHANGED <<sessions, nSessionCreates>>
       ELSE /\ nSessionCreates < MaxSessions
            /\ sessions' = sessions \cup {nSessionCreates + 1}
            /\ nSessionCreates' = nSessionCreates + 1
            /\ SetCaller(t, "renew", nSessionCreates + 1)
    /\ UNCHANGED <<store, idx, prefixSegments, sessionId, sessionRenewDoneCh, closedChs,
                   renewTasks, panicked, last>>

\* lines 89-90: a new stop channel is stored and the renewal goroutine started
StartRenew(t) ==
    /\ Running
    /\ callers[t].pc = "renew"
    /\ sessionRenewDoneCh' = callers[t].sid
    /\ renewTasks' = renewTasks \cup {[sid |-> callers[t].sid, ch |-> callers[t].sid]}
    /\ SetCaller(t, "cache", callers[t].sid)
    /\ UNCHANGED <<store, idx, sessions, nSessionCreates, prefixSegments, sessionId,
                   closedChs, panicked, last>>

\* line 92: the session id is cached
CacheSessionId(t) ==
    /\ Running
    /\ callers[t].pc = "cache"
    /\ sessionId' = callers[t].sid
    /\ SetCaller(t, "batch", callers[t].sid)
    /\ UNCHANGED <<store, idx, sessions, nSessionCreates, prefixSegments,
                   sessionRenewDoneCh, closedChs, renewTasks, panicked, last>>

\* Create(key, value, true) from line 116 on: the batch with the session id held
LeasedCreate(t, key, value) ==
    /\ Running
    /\ callers[t].pc = "batch"
    /\ store' = CreateOutcome(store, sessions, idx + 1, key, value, TRUE, callers[t].sid).st
    /\ idx' = idx + 1
    /\ SetCaller(t, "idle", 0)
    /\ UNCHANGED <<sessions, nSessionCreates, prefixSegments, sessionId, sessionRenewDoneCh,
                   closedChs, renewTasks, panicked, last>>

LeasedCommitDone(out) ==
    /\ store' = out.st
    /\ panicked' = out.panic

\* Commit of a Txn with leased Creates from line 507 on
LeasedCommit(t, txn) ==
    /\ Running
    /\ callers[t].pc = "batch"
    /\ LeasedCommitDone(CommitOutcome(store, sessions, idx + 1, txn, callers[t].sid))
    /\ idx' = idx + 1
    /\ SetCaller(t, "idle", 0)
    /\ UNCHANGED <<sessions, nSessionCreates, prefixSegments, sessionId, sessionRenewDoneCh,
                   closedChs, renewTasks, last>>

\* Close: closes the stop channel stored, if there is one; closing a closed
\* channel panics
Close ==
    /\ Running
    /\ IF sessionRenewDoneCh = 0
       THEN UNCHANGED <<closedChs, panicked>>
       ELSE IF sessionRenewDoneCh \in closedChs
       THEN /\ panicked' = "close of closed channel"
            /\ UNCHANGED closedChs
       ELSE /\ closedChs' = closedChs \cup {sessionRenewDoneCh}
            /\ UNCHANGED panicked
    /\ last' = [NoCall EXCEPT !.op = "Close", !.pre = store]
    /\ UNCHANGED <<store, idx, sessions, nSessionCreates, prefixSegments, sessionId,
                   sessionRenewDoneCh, renewTasks, callers>>

\* a renewal goroutine whose stop channel is closed destroys its session and
\* ends; the store deletes the keys the session holds
RenewStop(task) ==
    /\ Running
    /\ task \in renewTasks
    /\ task.ch \in closedChs
    /\ renewTasks' = renewTasks \ {task}
    /\ sessions' = sessions \ {task.sid}
    /\ store' = Remove(store, { p \in DOMAIN store : store[p].ses = task.sid })
    /\ UNCHANGED <<idx, nSessionCreates, prefixSegments, sessionId, sessionRenewDoneCh,
                   closedChs, callers, panicked, last>>

\* some renewal goroutine ends
RenewStopAny == \E task \in renewTasks : RenewStop(task)

----------------------------------------------------------------------------
(* Specifications *)

\* single calls, one after the other, and the end of the session
Next ==
    \/ Idle /\ idx < MaxIdx
            /\ \E k \in Keys, v \in Values, lease \in BOOLEAN, f \in BOOLEAN :
                   Create(k, v, lease, f)
    \/ Idle /\ idx < MaxIdx /\ \E k \in Keys, v \in Values : Set(k, v)
    \/ Idle /\ idx < MaxIdx /\ \E k \in Keys, v \in Values, ver \in 0..MaxIdx : Cas(k, v, ver)
    \/ Idle /\ idx < MaxIdx /\ \E k \in Keys, ver \in 0..MaxIdx : Erase(k, ver)
    \/ Idle /\ \E k \in Keys : Exists(k, FALSE)
    \/ Idle /\ \E k \in Keys : Get(k, FALSE)
    \/ Idle /\ \E k \in Keys : Children(k)
    \/ Idle /\ Close
    \/ Idle /\ \E task \in renewTasks : RenewStop(task)
    \/ Return

Spec == Init /\ [][Next]_vars

\* Txns committed between single writes
NextTxn ==
    \/ Idle /\ idx < MaxTxnIdx /\ \E k \in Keys, v \in Values : Create(k, v, FALSE, FALSE)
    \/ Idle /\ idx < MaxTxnIdx /\ \E k \in Keys, v \in Values : Set(k, v)
    \/ Idle /\ idx < MaxTxnIdx /\ \E k \in Keys : Erase(k, 0)
    \/ Idle /\ idx < MaxTxnIdx /\ \E txn \in PlainTxns : Commit(txn, FALSE)
    \/ Return

SpecTxn == Init /\ [][NextTxn]_vars

\* leased writes of overlapping callers, and Close
NextRace ==
    \/ \E t \in 1..NCallers : ReadSessionId(t)
    \/ \E t \in 1..NCallers, f \in BOOLEAN : SessionCreate(t, f)
    \/ \E t \in 1..NCallers : StartRenew(t)
    \/ \E t \in 1..NCallers : CacheSessionId(t)
    \/ idx < MaxRaceIdx /\ \E t \in 1..NCallers, k \in RaceKeys : LeasedCreate(t, k, "v1")
    \/ idx < MaxRaceIdx /\ \E t \in 1..NCallers, txn \in LeasedTxns : LeasedCommit(t, txn)
    \/ Close
    \/ \E task \in renewTasks : RenewStop(task)

SpecRace == Init /\ [][NextRace]_vars

----------------------------------------------------------------------------
(* What the calls are meant to do, in terms of keys *)

PathOf(key) == assemblePath(key)

Has(st, key) == PathOf(key) \in DOMAIN st

ParentOf(key) == SubSeq(key, 1, Len(key) - 1)

ParentOk(st, key) == Len(key) = 1 \/ Has(st, ParentOf(key))

\* key2 is key or lies under it, segment by segment
Within(key, key2) ==
    /\ Len(key) <= Len(key2)
    /\ SubSeq(key2, 1, Len(key)) = key

SubtreePaths(key) == { PathOf(k2) : k2 \in { k \in Keys : Within(key, k) } }

ChildKeys(key) == { k2 \in Keys : Len(k2) = Len(key) + 1 /\ Within(key, k2) }

SeqToSet(q) == { q[n] : n \in 1..Len(q) }

\* item n (one-based) of Checks followed by Ops
ItemCount(txn) == Len(txn.checks) + Len(txn.ops)

IsCheckItem(txn, n) == n <= Len(txn.checks)

OpItem(txn, n) == txn.ops[n - Len(txn.checks)]

\* the item cannot be carried out on st
ItemFails(st, txn, n) ==
    IF IsCheckItem(txn, n)
    THEN LET c == txn.checks[n]
         IN  \/ ~Has(st, c.key)
             \/ c.ver # 0 /\ st[PathOf(c.key)].ver # c.ver
    ELSE LET op == OpItem(txn, n)
         IN  CASE op.what = "Create" -> ~ParentOk(st, op.key) \/ Has(st, op.key)
               [] op.what = "Set"    -> ~Has(st, op.key)
               [] OTHER              -> ~Has(st, op.key)

\* the store once the item has taken effect at index i
ItemEffect(st, txn, n, i) ==
    IF IsCheckItem(txn, n) THEN st
    ELSE LET op == OpItem(txn, n)
         IN  CASE op.what = "Create" ->
                    Put(st, PathOf(op.key), [val |-> op.value, ver |-> i, ses |-> 0])
               [] op.what = "Set" ->
                    Put(st, PathOf(op.key),
                        [val |-> op.value, ver |-> i, ses |-> st[PathOf(op.key)].ses])
               [] OTHER -> Remove(st, SubtreePaths(op.key))

\* the items in order from item n: the zero-based position of the first that
\* fails (-1: none) and the store once all have taken effect
RECURSIVE Walk(_, _, _, _)
Walk(st, txn, n, i) ==
    IF n > ItemCount(txn) THEN [fail |-> -1, st |-> st]
    ELSE IF ItemFails(st, txn, n) THEN [fail |-> n - 1, st |-> st]
    ELSE Walk(ItemEffect(st, txn, n, i), txn, n + 1, i)

Committed == last.op = "Commit"

----------------------------------------------------------------------------
(* Claims about Commit, under SpecTxn *)

\* C1: a Txn is all-or-nothing. When Commit has returned, either it returned
\* no error and the store is the store before with every op of Ops applied in
\* order, or it returned an error and the store is exactly the store before
\* the call. The batch is one step of the store, so the states other calls
\* can observe are these two only.
C1_AllOrNothing ==
    Committed =>
        \/ /\ last.err = "ok"
           /\ Walk(last.pre, last.txn, 1, idx).fail = -1
           /\ store = Walk(last.pre, last.txn, 1, idx).st
        \/ /\ last.err # "ok"
           /\ store = last.pre

\* C1 witness: a Commit failed at its second op although its first op, a Set
\* of an existing key, could have been carried out
C1_Witness ==
    /\ Committed
    /\ last.err = "TxnFailed"
    /\ last.txn.checks = <<>>
    /\ Len(last.txn.ops) = 2
    /\ last.txn.ops[1].what = "Set"
    /\ Has(last.pre, last.txn.ops[1].key)
    /\ last.pre[PathOf(last.txn.ops[1].key)].val # last.txn.ops[1].value
    /\ last.index = 1

\* the Txn of the example: one check of k1 at its current version, then
\* Set(k1, v1) and Erase(k2, 0), with k1 stored and k2 not
C2_Case ==
    /\ Committed
    /\ Len(last.txn.checks) = 1
    /\ Len(last.txn.ops) = 2
    /\ Has(last.pre, last.txn.checks[1].key)
    /\ last.txn.checks[1].ver = last.pre[PathOf(last.txn.checks[1].key)].ver
    /\ last.txn.ops[1].what = "Set"
    /\ last.txn.ops[1].key = last.txn.checks[1].key
    /\ last.txn.ops[2].what = "Erase"
    /\ ~Has(last.pre, last.txn.ops[2].key)

\* C2 as stated: that Commit fails with TxnFailed whose index is 1
C2_IndexOne ==
    C2_Case => last.err = "TxnFailed" /\ last.index = 1

\* C2 amended: that Commit fails with TxnFailed whose index is 2, the
\* position of the Erase in Checks followed by Ops, and k1 is unmodified
C2_IndexTwo ==
    C2_Case =>
        /\ last.err = "TxnFailed"
        /\ last.index = 2
        /\ store = last.pre

\* C2 witness: the Txn of the example has been committed on a store where k1
\* holds another value than the Set writes
C2_Witness ==
    /\ C2_Case
    /\ last.pre[PathOf(last.txn.ops[1].key)].val # last.txn.ops[1].value

\* C3: a Commit whose batch does not commit returns TxnFailed with an index i,
\* 0 <= i < |Checks| + |Ops|, that is the position in Checks followed by Ops
\* of the first item that cannot be carried out; a batch fails only if there
\* is such an item, and the panic of toUserOpIndex is never reached
C3_IndexIsFailingItem ==
    /\ panicked # "txn failed on non-existing op"
    /\ Committed =>
          /\ last.err \in {"ok", "TxnFailed"}
          /\ (last.err = "TxnFailed") = (Walk(last.pre, last.txn, 1, idx).fail # -1)
          /\ last.err = "TxnFailed" =>
                /\ 0 <= last.index
                /\ last.index < ItemCount(last.txn)
                /\ last.index = Walk(last.pre, last.txn, 1, idx).fail

\* C3 witness: a Commit with a check failed at its last item, a Create of a
\* key of three segments whose parent is not stored
C3_Witness ==
    /\ Committed
    /\ last.err = "TxnFailed"
    /\ Len(last.txn.checks) = 1
    /\ Len(last.txn.ops) = 2
    /\ last.index = 2
    /\ last.txn.ops[2].what = "Create"
    /\ Len(last.txn.ops[2].key) = 3
    /\ ~Has(last.pre, last.txn.ops[2].key)

----------------------------------------------------------------------------
(* Claims about single calls, under Spec *)

Called(op) == last.op = op

\* C4: a successful Create(k, v, false) returns a version > 0, and a Get(k)
\* on the store it leaves returns no error, the value v and that version;
\* a successful Set, and a Cas that changed the store, return a version > 0
C4_CreateThenGet ==
    /\ Called("Create") /\ ~last.lease /\ last.err = "ok" =>
          /\ last.rver > 0
          /\ GetOutcome(store, last.key).err = "ok"
          /\ GetOutcome(store, last.key).val = last.value
          /\ GetOutcome(store, last.key).ver = last.rver
    /\ Called("Set") /\ last.err = "ok" => last.rver > 0
    /\ Called("Cas") /\ store # last.pre => last.rver > 0

\* C4 witness: a Create without lease of a key of two segments succeeded
C4_Witness ==
    /\ Called("Create")
    /\ ~last.lease
    /\ last.err = "ok"
    /\ Len(last.key) = 2

\* a Create(k, v, false) has returned and k was stored before it
C5_CreateOnExisting ==
    /\ Called("Create")
    /\ ~last.lease
    /\ Has(last.pre, last.key)

\* an Erase(k, 0) has returned no error
C5_Erased ==
    /\ Called("Erase")
    /\ last.ver = 0
    /\ last.err = "ok"

\* C5 as stated: Create(k, v, false) on a stored k fails with EntryExists and
\* leaves the store as it was
C5_ExistingIsEntryExists ==
    C5_CreateOnExisting => last.err = "EntryExists" /\ store = last.pre

\* C5 amended: Create(k, v, false) on a stored k that is top-level or whose
\* parent is stored fails with EntryExists and leaves the store as it was;
\* and on the store a successful Erase(k, 0) leaves, Create(k, v', false)
\* succeeds for every v' if k is top-level or its parent is stored
C5_ExistsOrRecreate ==
    /\ C5_CreateOnExisting /\ ParentOk(last.pre, last.key) =>
          last.err = "EntryExists" /\ store = last.pre
    /\ C5_Erased /\ ParentOk(store, last.key) =>
          \A v \in Values :
              CreateOutcome(store, sessions, idx + 1, last.key, v, FALSE, 0).err = "ok"

\* C5 witness: a Create without lease was refused with EntryExists on a key
\* of two segments
C5_Witness ==
    /\ C5_CreateOnExisting
    /\ Len(last.key) = 2
    /\ last.err = "EntryExists"

\* a Cas(k, v2, verOld) has returned, verOld # 0, k was stored at another version
C6_StaleCas ==
    /\ Called("Cas")
    /\ last.ver # 0
    /\ Has(last.pre, last.key)
    /\ last.pre[PathOf(last.key)].ver # last.ver

\* C6: such a Cas returns version 0 and no error and changes no key: the
\* store is the store before, and a Get(k) returns the value and version k
\* had before the call
C6_StaleCasIsNoOp ==
    C6_StaleCas =>
        /\ last.rver = 0
        /\ last.err = "ok"
        /\ store = last.pre
        /\ GetOutcome(store, last.key).val = last.pre[PathOf(last.key)].val
        /\ GetOutcome(store, last.key).ver = last.pre[PathOf(last.key)].ver

\* C6 witness: a stale Cas tried to write another value than the stored one
C6_Witness ==
    /\ C6_StaleCas
    /\ last.pre[PathOf(last.key)].val # last.value

\* an Erase(k, 0) has returned and k was stored before it
C7_EraseStored ==
    /\ Called("Erase")
    /\ last.ver = 0
    /\ Has(last.pre, last.key)

\* C7: such an Erase returns no error; the store afterwards holds exactly the
\* entries it held before outside the subtree of k, unchanged; Children of
\* the parent of k does not list k; Get of k and of every key under it
\* returns NoEntry
C7_EraseRemovesSubtree ==
    C7_EraseStored =>
        /\ last.err = "ok"
        /\ store = Remove(last.pre, SubtreePaths(last.key))
        /\ Len(last.key) > 1 =>
              KeyString(last.key) \notin
                  SeqToSet(ChildrenOutcome(store, sessions, ParentOf(last.key)).children)
        /\ \A k2 \in Keys :
              Within(last.key, k2) => GetOutcome(store, k2).err = "NoEntry"

\* C7 witness: Erase of /a/b removed it while its sibling /a/bc was stored
C7_Witness ==
    /\ C7_EraseStored
    /\ last.key = <<SegA, SegB>>
    /\ Has(last.pre, <<SegA, SegBC>>)
    /\ Has(store, <<SegA, SegBC>>)

\* C8: Children(p) of a key that is not stored fails with NoEntry; of a
\* stored key it returns, without repetition, exactly the key strings of the
\* stored keys one segment below p
C8_ChildrenAreDirect ==
    Called("Children") =>
        IF ~Has(last.pre, last.key)
        THEN last.err = "NoEntry"
        ELSE /\ last.err = "ok"
             /\ SeqToSet(last.children) =
                    { KeyString(k2) : k2 \in { k \in ChildKeys(last.key) : Has(last.pre, k) } }
             /\ Cardinality(SeqToSet(last.children)) = Len(last.children)

\* C8 witness: Children of /a on a mount with a prefix listed two keys while
\* a key two segments below /a was stored
C8_Witness ==
    /\ Called("Children")
    /\ prefixSegments # <<>>
    /\ last.key = <<SegA>>
    /\ Len(last.children) = 2
    /\ Has(last.pre, <<SegA, SegB, SegD>>)

----------------------------------------------------------------------------
(* Claims about the session *)

\* C9: whatever the interleaving of leased writes, one session at most is
\* created on the backing store and one renewal task at most is started, and
\* every caller about to send its batch holds the id of that session
C9_OneSession ==
    /\ nSessionCreates <= 1
    /\ Cardinality(renewTasks) <= 1
    /\ \A t \in 1..NCallers : callers[t].pc = "batch" => callers[t].sid = 1

\* C10: Close never panics, however often it is called
C10_CloseNeverPanics == panicked # "close of closed channel"

----------------------------------------------------------------------------
(* Claims about the end of renewal, under SpecStop *)

\* the driver is open: Close has not been called
Open == last.op # "Close"

AllIdle == \A t \in 1..NCallers : callers[t].pc = "idle"

\* leased writes of overlapping callers, then one Close once the writes have
\* returned, and no call after it
NextStop ==
    \/ Open /\ \E t \in 1..NCallers : ReadSessionId(t)
    \/ Open /\ \E t \in 1..NCallers, f \in BOOLEAN : SessionCreate(t, f)
    \/ Open /\ \E t \in 1..NCallers : StartRenew(t)
    \/ Open /\ \E t \in 1..NCallers : CacheSessionId(t)
    \/ Open /\ idx < MaxRaceIdx
            /\ \E t \in 1..NCallers, k \in RaceKeys : LeasedCreate(t, k, "v1")
    \/ Open /\ AllIdle /\ Close
    \/ RenewStopAny

\* a renewal goroutine whose stop channel is closed is scheduled and ends
SpecStop == Init /\ [][NextStop]_vars /\ WF_vars(RenewStopAny)

\* C11: once Close has returned, eventually no renewal task of the driver is
\* still renewing a session, also when leased writes overlapped before Close
C11_CloseStopsRenewal == (last.op = "Close") ~> (renewTasks = {})

----------------------------------------------------------------------------
(* Claims about malformed keys, under SpecKeys *)

\* the keys tried: two well-formed ones and a malformed one
KeysTried == { <<SegA>>, <<SegA, SegB>>, BadKey }

\* the Txns tried: a check or none, Ops with and without lease, any key of
\* them malformed or none
KeyTxns ==
    [checks : SeqsUpTo([key : KeysTried, ver : {0}], MaxChecks),
     ops : SeqsUpTo(UserOps({ <<SegA>>, BadKey }, {"v1"}, BOOLEAN), MaxOps)]

\* calls with well-formed and malformed keys, one after the other
NextKeys ==
    \/ Idle /\ idx < MaxKeyIdx
            /\ \E k \in KeysTried, lease \in BOOLEAN, f \in BOOLEAN : Create(k, "v1", lease, f)
    \/ Idle /\ idx < MaxKeyIdx /\ \E k \in KeysTried : Set(k, "v2")
    \/ Idle /\ idx < MaxKeyIdx /\ \E k \in KeysTried, ver \in 0..1 : Cas(k, "v2", ver)
    \/ Idle /\ idx < MaxKeyIdx /\ \E k \in KeysTried : Erase(k, 0)
    \/ Idle /\ \E k \in KeysTried : Exists(k, FALSE)
    \/ Idle /\ \E k \in KeysTried : Get(k, FALSE)
    \/ Idle /\ \E k \in KeysTried : Children(k)
    \/ Idle /\ idx < MaxKeyIdx /\ \E txn \in KeyTxns, f \in BOOLEAN : Commit(txn, f)
    \/ Idle /\ Close
    \/ Idle /\ RenewStopAny
    \/ Return

SpecKeys == Init /\ [][NextKeys]_vars

\* C12: a call that returns MalformedKey has sent nothing to the backing
\* store, no batch, no read and no session-create request, and has left the
\* store and the session of the driver as they were
C12_RejectedSendsNothing ==
    last.err = "MalformedKey" => last.sent = {} /\ store = last.pre

----------------------------------------------------------------------------
(* Watches, under SpecWatch *)

\* the index a read of path reports (X-Consul-Index): the version of the
\* entry, or the index of the store when there is none
QueryIndex(st, path) == IF Absent(st, path) THEN idx ELSE st[path].ver

\* caller t keeps the handle the Get or Exists that has just returned gave,
\* with the key and the version it was told
WatchTake(t) ==
    /\ Running
    /\ callers[t].pc = "idle"
    /\ last.op \in {"Get", "Exists"}
    /\ last.watch # <<>>
    /\ callers' = [callers EXCEPT ![t].pc = "holding", ![t].key = last.key,
                                  ![t].seen = last.rver, ![t].watch = last.watch]
    /\ UNCHANGED <<store, idx, sessions, nSessionCreates, prefixSegments, sessionId,
                   sessionRenewDoneCh, closedChs, renewTasks, panicked, last>>

\* caller t invokes the handle: c.kv.Get(frozenPath, opts) with WaitIndex set
\* is sent and the caller waits for its answer
WatchInvoke(t) ==
    /\ Running
    /\ callers[t].pc = "holding"
    /\ callers' = [callers EXCEPT
                       ![t].pc = "blocked",
                       ![t].waited = QueryIndex(store, callers[t].watch[1].path)
                                         <= callers[t].watch[1].ver]
    /\ UNCHANGED <<store, idx, sessions, nSessionCreates, prefixSegments, sessionId,
                   sessionRenewDoneCh, closedChs, renewTasks, panicked, last>>

\* the read is answered once the index of the path is above WaitIndex, and
\* the handle returns
WatchReturn(t) ==
    /\ Running
    /\ callers[t].pc = "blocked"
    /\ QueryIndex(store, callers[t].watch[1].path) > callers[t].watch[1].ver
    /\ callers' = [callers EXCEPT ![t].pc = "returned"]
    /\ UNCHANGED <<store, idx, sessions, nSessionCreates, prefixSegments, sessionId,
                   sessionRenewDoneCh, closedChs, renewTasks, panicked, last>>

WatchKeys == { <<SegA>>, <<SegA, SegB>> }

\* reads that return handles, writes, and callers that invoke the handles
NextWatch ==
    \/ Idle /\ idx < MaxWatchIdx /\ \E k \in WatchKeys : Create(k, "v1", FALSE, FALSE)
    \/ Idle /\ idx < MaxWatchIdx /\ \E k \in WatchKeys : Set(k, "v2")
    \/ Idle /\ idx < MaxWatchIdx /\ \E k \in WatchKeys : Erase(k, 0)
    \/ Idle /\ \E k \in WatchKeys, w \in BOOLEAN : Exists(k, w)
    \/ Idle /\ \E k \in WatchKeys, w \in BOOLEAN : Get(k, w)
    \/ Return
    \/ \E t \in 1..NCallers : WatchTake(t)
    \/ \E t \in 1..NCallers : WatchInvoke(t)
    \/ \E t \in 1..NCallers : WatchReturn(t)

\* the backing store answers a read whose index is above its WaitIndex
SpecWatch ==
    Init /\ [][NextWatch]_vars /\ \A t \in 1..NCallers : WF_vars(WatchReturn(t))

\* the key caller t watches has changed since the version the caller was told
KeyChanged(t) ==
    \/ ~Has(store, callers[t].key)
    \/ store[PathOf(callers[t].key)].ver > callers[t].seen

\* C13: a handle of Get(k, true) or Exists(k, true) that captured version V
\* of k, once invoked, returns only in a step taken when k has changed since
\* V (while k is still at V it stays blocked), and from every state where it
\* is blocked and k has changed it eventually returns (at once if the change
\* preceded the invocation)
C13_WatchFollowsKey ==
    /\ [][\A t \in 1..NCallers :
              callers[t].pc = "blocked" /\ callers'[t].pc # "blocked" => KeyChanged(t)]_vars
    /\ \A t \in 1..NCallers :
          (callers[t].pc = "blocked" /\ KeyChanged(t)) ~> (callers[t].pc = "returned")

\* C13 witness: a handle on /a/b was invoked while /a/b was still at the
\* version captured, and has returned after a Set of /a/b
C13_Witness ==
    \E t \in 1..NCallers :
        /\ callers[t].pc = "returned"
        /\ callers[t].waited
        /\ callers[t].key = <<SegA, SegB>>
        /\ Has(store, <<SegA, SegB>>)
        /\ store[PathOf(<<SegA, SegB>>)].val = "v2"

----------------------------------------------------------------------------
(* Claims about Set inside a Txn, under SpecTxn *)

\* a Commit of a Txn with no Checks and the single op Set(k, v) has returned
C14_SingleSet ==
    /\ Committed
    /\ last.txn.checks = <<>>
    /\ Len(last.txn.ops) = 1
    /\ last.txn.ops[1].what = "Set"

\* C14 as stated: such a Txn commits exactly when the single call Set(k, v)
\* succeeds, that is when k is top-level or the parent of k is stored
C14_SetAsSingleCall ==
    C14_SingleSet => ((last.err = "ok") = ParentOk(last.pre, last.txn.ops[1].key))

\* C14 amended: such a Txn commits exactly when k itself is stored, and then
\* writes v; the single call Set(k, v) succeeds exactly when k is top-level
\* or the parent of k is stored
C14_SetInTxnNeedsKey ==
    /\ C14_SingleSet =>
          /\ (last.err = "ok") = Has(last.pre, last.txn.ops[1].key)
          /\ last.err = "ok" =>
                /\ Has(store, last.txn.ops[1].key)
                /\ store[PathOf(last.txn.ops[1].key)].val = last.txn.ops[1].value
          /\ last.err # "ok" => last.err = "TxnFailed" /\ last.index = 0 /\ store = last.pre
    /\ Called("Set") => ((last.err = "ok") = ParentOk(last.pre, last.key))

\* C14 witness: the Txn failed on a key of two segments that was not stored
\* while its parent was, where the single call Set succeeds
C14_Witness ==
    /\ C14_SingleSet
    /\ Len(last.txn.ops[1].key) = 2
    /\ Has(last.pre, ParentOf(last.txn.ops[1].key))
    /\ ~Has(last.pre, last.txn.ops[1].key)
    /\ last.err = "TxnFailed"
    /\ SetOutcome(last.pre, sessions, idx + 1, last.txn.ops[1].key, "v2").err = "ok"

----------------------------------------------------------------------------
(* Claims about the results of Commit, under SpecTxn *)

\* one TxnOpResult for each Create or Set of ops, in order, with version i
RECURSIVE ResultsFor(_, _)
ResultsFor(ops, i) ==
    IF ops = <<>> THEN <<>>
    ELSE (IF Head(ops).what \in {"Create", "Set"}
          THEN << [kind |-> Head(ops).what, ver |-> i] >>
          ELSE <<>>)
         \o ResultsFor(Tail(ops), i)

\* the positions in ops after n where the key of ops[n] is written or removed
LaterTouched(ops, n) ==
    { m \in n + 1..Len(ops) : Within(ops[m].key, ops[n].key) }

\* C15: when Commit succeeds, the list returned holds one TxnOpResult for
\* each Create or Set of Ops, in the order of Ops, with the kind of that op
\* and the version the batch gave to the key of that op; Checks, Erases and
\* auxiliary operations add no entry. The version is the one the store holds
\* for the key unless a later op of the Txn removed it.
C15_ResultsPairOps ==
    Committed /\ last.err = "ok" =>
        /\ last.results = ResultsFor(last.txn.ops, idx)
        /\ \A n \in 1..Len(last.txn.ops) :
              /\ last.txn.ops[n].what \in {"Create", "Set"}
              /\ LaterTouched(last.txn.ops, n) = {}
              => /\ Has(store, last.txn.ops[n].key)
                 /\ store[PathOf(last.txn.ops[n].key)].ver = idx
                 /\ store[PathOf(last.txn.ops[n].key)].val = last.txn.ops[n].value

\* C15 witness: a Commit with a check at a version other than 0, an Erase of
\* a key of two segments and then a Create of that key succeeded
C15_Witness ==
    /\ Committed
    /\ last.err = "ok"
    /\ Len(last.txn.checks) = 1
    /\ last.txn.checks[1].ver # 0
    /\ Len(last.txn.ops) = 2
    /\ last.txn.ops[1].what = "Erase"
    /\ last.txn.ops[2].what = "Create"
    /\ Len(last.txn.ops[2].key) = 2
    /\ last.results = << [kind |-> "Create", ver |-> idx] >>

----------------------------------------------------------------------------
(* Claims about the session of calls that do not overlap, under SpecKeys *)

\* the call that returns in this step reached getOrCreateSessionId
AskedSession(call) ==
    \/ call.op = "Create" /\ call.lease /\ ~Malformed(call.key)
    \/ call.op = "Commit" /\ AsksSession(call.txn)

\* the paths the call wrote with a lease, and no later op of its Txn touched
LeasedPaths(call) ==
    IF call.op = "Create" THEN { PathOf(call.key) }
    ELSE { PathOf(call.txn.ops[n].key) :
             n \in { m \in 1..Len(call.txn.ops) :
                       /\ call.txn.ops[m].what = "Create"
                       /\ call.txn.ops[m].lease
                       /\ LaterTouched(call.txn.ops, m) = {} } }

\* C16: in calls that do not overlap, a leased write sends a session-create
\* request exactly if no session-create has succeeded before. If the request
\* fails the write returns its error and no session id, session or renewal
\* task is recorded and nothing is written; otherwise the id of the one
\* session ever created is cached, one renewal task exists per session
\* created, and the entries a successful leased write stores carry that id
\* (unless a later op of the same Txn removed or rewrote them).
\* A call that asks for no session sends no session-create request.
C16_SessionCreatedOnce ==
    [][last.op = "none" /\ last'.op # "none" =>
          IF AskedSession(last')
          THEN /\ (sessionId = 0) = (nSessionCreates = 0)
               /\ ("session-create" \in last'.sent) = (nSessionCreates = 0)
               /\ IF last'.err = "Transport"
                  THEN /\ nSessionCreates = 0
                       /\ last'.sent = {"session-create"}
                       /\ UNCHANGED <<store, sessionId, sessions, nSessionCreates,
                                      sessionRenewDoneCh, renewTasks>>
                  ELSE /\ nSessionCreates' = 1
                       /\ sessionId' = 1
                       /\ nSessionCreates = 1 =>
                              UNCHANGED <<sessionId, sessions, sessionRenewDoneCh, renewTasks>>
                       /\ nSessionCreates = 0 =>
                              /\ sessions' = {1}
                              /\ renewTasks' = {[sid |-> 1, ch |-> 1]}
                       /\ last'.err = "ok" =>
                              \A path \in LeasedPaths(last') :
                                  path \in DOMAIN store' => store'[path].ses = sessionId'
          ELSE /\ "session-create" \notin last'.sent
               /\ UNCHANGED <<sessionId, sessions, nSessionCreates, sessionRenewDoneCh,
                              renewTasks>>]_vars

\* C16 witness: a leased Create has written its key with the cached id of
\* the session, sending no session-create request
C16_Witness ==
    /\ Called("Create")
    /\ last.lease
    /\ last.err = "ok"
    /\ last.sent = {"txn"}
    /\ nSessionCreates = 1
    /\ store[PathOf(last.key)].ses = 1

----------------------------------------------------------------------------
(* Claims about the errors of single calls, under Spec *)

\* an Erase(k, ver) has returned with ver # 0 other than the version k had
C17_StaleErase ==
    /\ Called("Erase")
    /\ Has(last.pre, last.key)
    /\ last.ver # 0
    /\ last.ver # last.pre[PathOf(last.key)].ver

\* C17: Erase(k, ver) returns NoEntry exactly when k is not stored, and then
\* changes nothing; on a stored k it returns no error, removes nothing when
\* ver # 0 is not the version of k, and removes k and its subtree otherwise
C17_EraseErrors ==
    Called("Erase") =>
        /\ last.err \in {"ok", "NoEntry"}
        /\ (last.err = "NoEntry") = ~Has(last.pre, last.key)
        /\ ~Has(last.pre, last.key) => store = last.pre
        /\ C17_StaleErase => store = last.pre
        /\ Has(last.pre, last.key) /\ ~C17_StaleErase =>
              store = Remove(last.pre, SubtreePaths(last.key))

\* C17 witness: an Erase of /a with a version other than the one /a had
\* returned no error while /a/b was stored
C17_Witness ==
    /\ C17_StaleErase
    /\ last.key = <<SegA>>
    /\ Has(last.pre, <<SegA, SegB>>)
    /\ last.err = "ok"

\* the batch of the call was sent, and the session a lease needs was alive
C18_BatchRan ==
    /\ last.err # "Transport"
    /\ last.lease => sessionId \in sessions

\* a Create or Set of a key of two or more segments has returned, whose
\* parent was not stored
C18_ParentAbsent ==
    /\ Called("Create") \/ Called("Set")
    /\ Len(last.key) > 1
    /\ ~Has(last.pre, ParentOf(last.key))

C19_AsCreate == CreateOutcome(last.pre, sessions, idx, last.key, last.value, FALSE, 0)

\* C19: Cas returns no error for a lost race. Cas(k, v, 0) leaves the store
\* Create(k, v, false) leaves and returns what it returns, except (0, no
\* error) where Create returns EntryExists: NoEntry when the parent is not
\* stored, (0, no error) and no change when k is stored under a stored parent
\* or at top level, and else v written at a new version > 0. Cas(k, v, ver),
\* ver # 0, returns NoEntry exactly when k is not stored, (0, no error) and no
\* change when k is stored at another version, and else writes v and returns
\* the new version > 0.
C19_CasErrors ==
    Called("Cas") =>
        /\ last.err \in {"ok", "NoEntry"}
        /\ IF last.ver = 0
           THEN /\ store = C19_AsCreate.st
                /\ C19_AsCreate.err = "EntryExists" =>
                      last.err = "ok" /\ last.rver = 0 /\ store = last.pre
                /\ C19_AsCreate.err # "EntryExists" =>
                      last.err = C19_AsCreate.err /\ last.rver = C19_AsCreate.ver
                /\ (last.err = "NoEntry") = ~ParentOk(last.pre, last.key)
                /\ ParentOk(last.pre, last.key) /\ Has(last.pre, last.key) =>
                      last.err = "ok" /\ last.rver = 0 /\ store = last.pre
                /\ ParentOk(last.pre, last.key) /\ ~Has(last.pre, last.key) =>
                      /\ last.err = "ok"
                      /\ last.rver > 0
                      /\ store = Put(last.pre, PathOf(last.key),
                                     [val |-> last.value, ver |-> last.rver, ses |-> 0])
           ELSE /\ (last.err = "NoEntry") = ~Has(last.pre, last.key)
                /\ ~Has(last.pre, last.key) => last.rver = 0 /\ store = last.pre
                /\ Has(last.pre, last.key) /\ last.pre[PathOf(last.key)].ver # last.ver =>
                      last.rver = 0 /\ store = last.pre
                /\ Has(last.pre, last.key) /\ last.pre[PathOf(last.key)].ver = last.ver =>
                      /\ last.rver > last.ver
                      /\ store = Put(last.pre, PathOf(last.key),
                                     [val |-> last.value, ver |-> last.rver,
                                      ses |-> last.pre[PathOf(last.key)].ses])

\* C19 witness: Cas(k, v, 0) on a stored key of two segments, with another
\* value than v, returned version 0 and no error
C19_Witness ==
    /\ Called("Cas")
    /\ last.ver = 0
    /\ Len(last.key) = 2
    /\ Has(last.pre, last.key)
    /\ last.pre[PathOf(last.key)].val # last.value
    /\ last.err = "ok"
    /\ last.rver = 0

----------------------------------------------------------------------------
(* Claims about the hierarchy, under SpecPlain *)

\* writes without a lease, single and in Txns, in any order; each call is
\* one batch, which the store runs as one step, so the calls of overlapping
\* callers take effect in some order of the calls
NextPlain ==
    \/ Idle /\ idx < MaxTxnIdx /\ \E k \in Keys, v \in Values : Create(k, v, FALSE, FALSE)
    \/ Idle /\ idx < MaxTxnIdx /\ \E k \in Keys, v \in Values : Set(k, v)
    \/ Idle /\ idx < MaxTxnIdx
            /\ \E k \in Keys, v \in Values, ver \in 0..MaxTxnIdx : Cas(k, v, ver)
    \/ Idle /\ idx < MaxTxnIdx /\ \E k \in Keys, ver \in 0..MaxTxnIdx : Erase(k, ver)
    \/ Idle /\ idx < MaxTxnIdx /\ \E txn \in PlainTxns : Commit(txn, FALSE)
    \/ Return

SpecPlain == Init /\ [][NextPlain]_vars

\* C20: every stored key of two or more segments has its parent stored, and
\* the store holds nothing but the paths of keys written
C20_ParentClosure ==
    /\ DOMAIN store \subseteq { PathOf(k) : k \in Keys }
    /\ \A k \in Keys : Has(store, k) => ParentOk(store, k)

\* C20 witness: an Erase of /a has removed /a/b and /a/b/d with it, leaving
\* nothing stored
C20_Witness ==
    /\ Called("Erase")
    /\ last.key = <<SegA>>
    /\ Has(last.pre, <<SegA, SegB>>)
    /\ Has(last.pre, <<SegA, SegB, SegD>>)
    /\ last.err = "ok"
    /\ store = <<>>

====
